---------------------------- MODULE Spec2Model ----------------------------
(***************************************************************************)
(* Model of pyunifiprotect/unifi_data.py: the websocket event path         *)
(* (event_from_ws_frames), the projection (process_event) and the bounded  *)
(* event store (ProtectStateMachine over FixSizeOrderedDict).              *)
(*                                                                         *)
(* Python values are modelled as follows.                                  *)
(*   - an optional value (a dict .get() result, a JSON null) is a tuple:   *)
(*     None is <<>> and the value v is <<v>>;                              *)
(*   - a dict is a function from the set of its keys (strings) to wrapped  *)
(*     values; a key that is absent is not in the DOMAIN, a key whose      *)
(*     value is JSON null maps to None;                                    *)
(*   - an OrderedDict is the sequence of its [key, value] items in         *)
(*     iteration order (oldest insertion first);                           *)
(*   - timestamps are epoch milliseconds, scores are integers.             *)
(***************************************************************************)
EXTENDS Integers, Sequences, FiniteSets, TLC

VARIABLES
    _events,        \* ProtectStateMachine._events: the FixSizeOrderedDict's items
    _max_size,      \* FixSizeOrderedDict._max_size
    minimum_score,  \* the caller's threshold, the same for every call of a run
    call,           \* the arguments of the last call (history variable)
    ret,            \* what the last call returned or raised
    seen,           \* history: the ids that were ever tracked
    added,          \* history: the ids inserted as new keys, in order
    hist            \* history: per id, the bodies applied since its last add;
                    \* for the decoder, the frames written and the calls made

vars == <<_events, _max_size, minimum_score, call, ret, seen, added, hist>>

-----------------------------------------------------------------------------
(* Program constants. *)

WS_HEADER_SIZE == 8

EVENT_SMART_DETECT_ZONE == "smartDetectZone"

EVENT_MOTION == "motion"

EVENT_RING == "ring"

MAX_SUPPORTED_CAMERAS == 256

MAX_EVENT_HISTORY_IN_STATE_MACHINE == MAX_SUPPORTED_CAMERAS * 2

LIVE_RING_FROM_WEBSOCKET == -1

-----------------------------------------------------------------------------
(* Python values. *)

None == <<>>

Some(v) == <<v>>

\* dict.get(key): the value, None when the key is absent.
get(d, k) == IF k \in DOMAIN d THEN d[k] ELSE None

\* Python truthiness of an optional number: None and 0 are falsy.
truthy(o) == o # None /\ o # Some(0)

\* Mutant of dict_update: the other dict replaces this one.
dict_update_replace(d, u) == u

\* dict.update(other): keys of other win, the other keys are kept.
dict_update(d, u) ==
    [k \in (DOMAIN d) \cup (DOMAIN u) |-> IF k \in DOMAIN u THEN u[k] ELSE d[k]]

\* The empty dict.
EmptyDict == [k \in {} |-> None]

\* d[k] = v
dict_setitem(d, k, v) == [x \in (DOMAIN d) \cup {k} |-> IF x = k THEN v ELSE d[x]]

-----------------------------------------------------------------------------
(* process_event and _process_timestamp. *)

\* strftime("%Y-%m-%d %H:%M:%S") of int(time_stamp) / 1000: the timestamp at
\* a resolution of one second; the milliseconds are lost.
_process_timestamp(time_stamp) == [seconds |-> time_stamp \div 1000]

\* round((float(end) / 1000) - (float(start) / 1000), 3): seconds with three
\* decimals, held as the number of thousandths.
event_length_of(start, end) == [thousandths |-> end - start]

\* process_event raises TypeError when end is truthy and start is None
\* (float(None)); otherwise it returns the processed event.
process_event_raises(event) ==
    truthy(get(event, "end")) /\ get(event, "start") = None

\* Mutant of score_passes: the comparison is strict.
score_passes_strict(score, min_score) == score # None /\ score[1] > min_score

\* score is not None and int(score) >= minimum_score (line 221).
score_passes(score, min_score) == score # None /\ score[1] >= min_score

\* Mutant of ring_on: the window is open at its boundary.
ring_on_strict(start, end, ring_interval) ==
    \/ ring_interval = LIVE_RING_FROM_WEBSOCKET
    \/ ~truthy(end)
    \/ (start[1] > ring_interval /\ end[1] > ring_interval)

\* Mutant of ring_on: one of start and end in the window is enough.
ring_on_either(start, end, ring_interval) ==
    \/ ring_interval = LIVE_RING_FROM_WEBSOCKET
    \/ ~truthy(end)
    \/ (start[1] >= ring_interval \/ end[1] >= ring_interval)

\* Mutant of ring_on: an event without end is not on by itself.
ring_on_window_only(start, end, ring_interval) ==
    \/ ring_interval = LIVE_RING_FROM_WEBSOCKET
    \/ /\ truthy(end)
       /\ truthy(start)
       /\ start[1] >= ring_interval
       /\ end[1] >= ring_interval

\* The ring branch (lines 225-233): on for a websocket event, for an event
\* without end, and for one whose start and end are both at or after
\* ring_interval.
ring_on(start, end, ring_interval) ==
    \/ ring_interval = LIVE_RING_FROM_WEBSOCKET
    \/ ~truthy(end)
    \/ (start[1] >= ring_interval /\ end[1] >= ring_interval)

process_event(event, min_score, ring_interval) ==
    LET start == get(event, "start")
        end == get(event, "end")
        event_type == get(event, "type")
        score == get(event, "score")
        start_time == IF truthy(start)
                        THEN Some(_process_timestamp(start[1]))
                        ELSE None
        event_length == IF truthy(end)
                          THEN event_length_of(start[1], end[1])
                          ELSE event_length_of(0, 0)
        is_motion == event_type \in {Some(EVENT_MOTION), Some(EVENT_SMART_DETECT_ZONE)}
        event_on == is_motion /\ score_passes(score, min_score)
        event_ring_on == ~is_motion /\ ring_on(start, end, ring_interval)
        base == [event_on |-> event_on,
                 event_ring_on |-> event_ring_on,
                 event_type |-> event_type,
                 event_start |-> start_time,
                 event_length |-> event_length,
                 event_score |-> score,
                 event_object |-> get(event, "smartDetectTypes")]
        with_last == IF is_motion
                       THEN dict_setitem(base, "last_motion", start_time)
                       ELSE dict_setitem(base, "last_ring", start_time)
        with_thumb == IF get(event, "thumbnail") # None
                        THEN dict_setitem(with_last, "event_thumbnail",
                                          get(event, "thumbnail"))
                        ELSE with_last
    IN  IF get(event, "heatmap") # None
          THEN dict_setitem(with_thumb, "event_heatmap", get(event, "heatmap"))
          ELSE with_thumb

-----------------------------------------------------------------------------
(* FixSizeOrderedDict and ProtectStateMachine. *)

keys(d) == [i \in 1..Len(d) |-> d[i].key]

has_key(d, k) == \E i \in 1..Len(d) : d[i].key = k

index_of(d, k) == CHOOSE i \in 1..Len(d) : d[i].key = k

\* OrderedDict.get(key): the value wrapped, None when the key is absent.
\* A lookup does not move the key.
OrderedDict_get(d, k) == IF has_key(d, k) THEN Some(d[index_of(d, k)].value) ELSE None

\* Mutant of OrderedDict_setitem: an existing key is deleted and inserted
\* again, which moves it to the end.
OrderedDict_setitem_move_to_end(d, k, v) ==
    Append(SelectSeq(d, LAMBDA item : item.key # k), [key |-> k, value |-> v])

\* OrderedDict.__setitem__: an existing key keeps its place and gets the new
\* value; a new key goes to the end.
OrderedDict_setitem(d, k, v) ==
    IF has_key(d, k)
      THEN [d EXCEPT ![index_of(d, k)].value = v]
      ELSE Append(d, [key |-> k, value |-> v])

\* Mutant of popitem_first: popitem(last=True), which drops the newest item.
popitem_newest(d) == SubSeq(d, 1, Len(d) - 1)

\* popitem(last=False): drops the first (oldest) item.
popitem_first(d) == Tail(d)

\* Mutant of FixSizeOrderedDict_setitem: the size check is missing.
FixSizeOrderedDict_setitem_unbounded(d, max_size, k, v) ==
    OrderedDict_setitem(d, k, v)

FixSizeOrderedDict_setitem(d, max_size, k, v) ==
    LET d1 == OrderedDict_setitem(d, k, v)
    IN  IF max_size > 0 /\ Len(d1) > max_size THEN popitem_first(d1) ELSE d1

ProtectStateMachine_add(d, max_size, event_id, event_json) ==
    FixSizeOrderedDict_setitem(d, max_size, event_id, event_json)

\* Mutant of ProtectStateMachine_update: an unknown id gets a new item made
\* of the update's body.
ProtectStateMachine_update_upsert(d, event_id, new_event_json) ==
    LET event_json == OrderedDict_get(d, event_id)
        merged == IF event_json = None THEN new_event_json
                  ELSE dict_update(event_json[1], new_event_json)
    IN  [found |-> event_json # None,
         events |-> OrderedDict_setitem(d, event_id, merged),
         event |-> merged]

\* Mutant of ProtectStateMachine_update: the merged item moves to the end
\* (move_to_end on access).
ProtectStateMachine_update_move_to_end(d, event_id, new_event_json) ==
    LET event_json == OrderedDict_get(d, event_id)
    IN  IF event_json = None
          THEN [found |-> FALSE, events |-> d, event |-> EmptyDict]
          ELSE LET merged == dict_update(event_json[1], new_event_json)
               IN  [found |-> TRUE,
                    events |-> Append(SelectSeq(d, LAMBDA item : item.key # event_id),
                                      [key |-> event_id, value |-> merged]),
                    event |-> merged]

\* ProtectStateMachine.update: [found, events, event]; the tracked dict is
\* merged in place.
ProtectStateMachine_update(d, event_id, new_event_json) ==
    LET event_json == OrderedDict_get(d, event_id)
    IN  IF event_json = None
          THEN [found |-> FALSE, events |-> d, event |-> EmptyDict]
          ELSE LET merged == dict_update(event_json[1], new_event_json)
               IN  [found |-> TRUE,
                    events |-> [d EXCEPT ![index_of(d, event_id)].value = merged],
                    event |-> merged]

-----------------------------------------------------------------------------
(* What a call returns or raises. *)

Return(camera_id, processed_event) ==
    [kind |-> "return", exc |-> None,
     camera_id |-> camera_id, processed_event |-> processed_event]

Raise(exc) ==
    [kind |-> "raise", exc |-> Some(exc),
     camera_id |-> None, processed_event |-> None]

\* return None, None
Dropped == Return(None, None)

NoCall == [op |-> "none"]

-----------------------------------------------------------------------------
(* event_from_ws_frames(state_machine, minimum_score, action_json, data_json) *)

\* Mutant of model_key_rejected: the check is missing.
model_key_rejected_never(action_json) == FALSE

\* if action_json["modelKey"] != "event": raise ValueError (lines 168-169).
model_key_rejected(action_json) == action_json.modelKey # "event"

\* Mutant of add_dropped: only a missing key counts, a null camera does not.
add_dropped_missing_key_only(data_json) == "camera" \notin DOMAIN data_json

\* add: camera_id = data_json.get("camera"); None returns None, None
\* (lines 175-177).
add_dropped(data_json) == get(data_json, "camera") = None

\* update: "if not event" (lines 182-183): no tracked dict, or an empty one.
update_dropped(upd) == ~upd.found \/ upd.event = EmptyDict

\* The projection of the event that add or update handed on (lines 188-191):
\* always with ring_interval = LIVE_RING_FROM_WEBSOCKET.
project_ws(camera_id, event) ==
    IF process_event_raises(event)
      THEN Raise("TypeError")
      ELSE Return(camera_id,
                  Some(process_event(event, minimum_score, LIVE_RING_FROM_WEBSOCKET)))

\* The whole call. The store is changed before the event is projected, so a
\* projection that raises leaves the store changed.
event_from_ws_frames(action_json, data_json) ==
    LET action == action_json.action
        event_id == action_json.id
        upd == ProtectStateMachine_update(_events, event_id, data_json)
    IN  /\ call' = [op |-> "event_from_ws_frames",
                    action_json |-> action_json, data_json |-> data_json]
        /\ IF model_key_rejected(action_json)
             THEN /\ ret' = Raise("ValueError")
                  /\ UNCHANGED _events
             ELSE IF action = "add"
               THEN IF add_dropped(data_json)
                      THEN /\ ret' = Dropped
                           /\ UNCHANGED _events
                      ELSE /\ _events' = ProtectStateMachine_add(
                                             _events, _max_size, event_id, data_json)
                           /\ ret' = project_ws(get(data_json, "camera"), data_json)
             ELSE IF action = "update"
               THEN /\ _events' = upd.events
                    /\ ret' = IF update_dropped(upd)
                                THEN Dropped
                                ELSE project_ws(get(upd.event, "camera"), upd.event)
             ELSE /\ ret' = Raise("ValueError")
                  /\ UNCHANGED _events
        /\ UNCHANGED <<_max_size, minimum_score>>

\* ProtectStateMachine.__init__ over a FixSizeOrderedDict of the given size.
ProtectStateMachine_init(max_size) ==
    /\ _events = <<>>
    /\ _max_size = max_size

-----------------------------------------------------------------------------
(* Inputs. *)

ModelKeys == {"event", "camera"}

Actions == {"add", "update", "remove"}

ActionJsons(ids) == [modelKey : ModelKeys, action : Actions, id : ids]

MinScores == {46, 50}

-----------------------------------------------------------------------------
(* Spec: every interleaving of calls on a store of a small capacity.       *)
(* FixSizeOrderedDict takes its capacity as a parameter; here it is        *)
(* MaxSize, so that eviction is reached with few ids. SpecFifo below runs  *)
(* the store at the program's capacity.                                    *)

MaxSize == 2

\* The event ids of the calls: one more than the store holds.
Ids == {1, 2, 3}

RingBody == [type |-> Some(EVENT_RING), start |-> Some(1000), camera |-> Some("c1")]

EndBody == [end |-> Some(1500)]

NullCameraBody == [camera |-> None]

StoreBodies == {RingBody, EndBody, NullCameraBody}

key_set(d) == {d[i].key : i \in 1..Len(d)}

Init ==
    /\ ProtectStateMachine_init(MaxSize)
    /\ minimum_score = 50
    /\ call = NoCall
    /\ ret = Dropped
    /\ seen = {}
    /\ added = <<>>
    /\ hist = <<>>

Ingest ==
    \E action_json \in ActionJsons(Ids), data_json \in StoreBodies :
        /\ event_from_ws_frames(action_json, data_json)
        /\ seen' = seen \cup key_set(_events')
        /\ UNCHANGED <<added, hist>>

Next == Ingest

Spec == Init /\ [][Next]_vars

-----------------------------------------------------------------------------
(* The shape of the last call. *)

IsWsCall(c) == c.op = "event_from_ws_frames"

\* A call that passes the modelKey check with the given action.
IsEventCall(c, action) ==
    /\ IsWsCall(c)
    /\ c.action_json.modelKey = "event"
    /\ c.action_json.action = action

\* A call that event_from_ws_frames must reject.
IsInvalidCall(c) ==
    /\ IsWsCall(c)
    /\ \/ c.action_json.modelKey # "event"
       \/ c.action_json.action \notin {"add", "update"}

-----------------------------------------------------------------------------
(* Claims about the store under arbitrary calls (Spec).                    *)

\* C3: an update whose id is not in the store returns Dropped (None, None)
\* and leaves the store as it was: the same items in the same order with the
\* same contents.
C3_UpdateOfUntrackedIdIsDropped ==
    [][ (IsEventCall(call, "update")' /\ ~has_key(_events, call'.action_json.id))
            => (ret' = Dropped /\ _events' = _events) ]_vars

\* C3 witness: the store is full, the id of the last call was tracked once and
\* has been evicted, and the update of it was dropped.
C3_Witness ==
    /\ IsEventCall(call, "update")
    /\ call.action_json.id \in seen
    /\ ~has_key(_events, call.action_json.id)
    /\ Len(_events) = _max_size
    /\ ret = Dropped

\* C5 as claimed: an add whose body has no camera (missing or null) returns
\* Dropped, leaves the store unchanged, and an update of that id right after
\* it is Dropped too.
C5_AsClaimed ==
    [][ /\ (IsEventCall(call, "add")' /\ get(call'.data_json, "camera") = None)
            => (ret' = Dropped /\ _events' = _events)
        /\ ( /\ IsEventCall(call, "add")
             /\ get(call.data_json, "camera") = None
             /\ IsEventCall(call, "update")'
             /\ call'.action_json.id = call.action_json.id )
            => ret' = Dropped ]_vars

\* C5 amended: an add whose body has no camera returns Dropped and leaves the
\* store unchanged; an update of that id right after it is Dropped exactly
\* when the id was not tracked before the add.
C5_AddWithoutCameraIsDropped ==
    [][ /\ (IsEventCall(call, "add")' /\ get(call'.data_json, "camera") = None)
            => (ret' = Dropped /\ _events' = _events)
        /\ ( /\ IsEventCall(call, "add")
             /\ get(call.data_json, "camera") = None
             /\ IsEventCall(call, "update")'
             /\ call'.action_json.id = call.action_json.id )
            => /\ ret = Dropped
               /\ (ret' = Dropped) <=> ~has_key(_events, call.action_json.id) ]_vars

\* C5 witness: an add with a null camera for an id that is not tracked was
\* dropped while the store is full.
C5_Witness ==
    /\ IsEventCall(call, "add")
    /\ "camera" \in DOMAIN call.data_json
    /\ call.data_json.camera = None
    /\ ~has_key(_events, call.action_json.id)
    /\ Len(_events) = _max_size
    /\ ret = Dropped

-----------------------------------------------------------------------------
(* SpecFifo: the store at the program's capacity.  New ids arrive in       *)
(* ascending or in descending order (the first add decides); between the   *)
(* adds, every kind of call is made on the id that was added first, which  *)
(* is the first to be evicted.                                             *)

\* How many events beyond the capacity a run adds.
MaxExtra == 2

FifoLastId == MAX_EVENT_HISTORY_IN_STATE_MACHINE + MaxExtra

FifoBodies == {RingBody, EndBody}

\* The ids that were never added, next in the run's order.
FreshIds ==
    LET n == Cardinality({added[i] : i \in 1..Len(added)})
    IN  IF added = <<>> THEN {1, FifoLastId}
        ELSE IF added[1] = 1 THEN {n + 1}
        ELSE {FifoLastId - n}

InitFifo ==
    /\ ProtectStateMachine_init(MAX_EVENT_HISTORY_IN_STATE_MACHINE)
    /\ minimum_score = 50
    /\ call = NoCall
    /\ ret = Dropped
    /\ seen = {}
    /\ added = <<>>
    /\ hist = <<>>

\* A call of event_from_ws_frames; added records the id of an add with a
\* camera whose id is not tracked at the call.
IngestFifo(action_json, data_json) ==
    /\ event_from_ws_frames(action_json, data_json)
    /\ added' = IF /\ action_json.modelKey = "event"
                   /\ action_json.action = "add"
                   /\ get(data_json, "camera") # None
                   /\ ~has_key(_events, action_json.id)
                  THEN Append(added, action_json.id)
                  ELSE added
    /\ Len(added') <= FifoLastId
    /\ UNCHANGED <<seen, hist>>

\* The add of an event with a new id.
AddFresh ==
    \E id \in FreshIds :
        IngestFifo([modelKey |-> "event", action |-> "add", id |-> id], RingBody)

\* Any call on the id that was added first.
CallOnOldest ==
    /\ added # <<>>
    /\ \E action_json \in ActionJsons({added[1]}), data_json \in FifoBodies :
           IngestFifo(action_json, data_json)

NextFifo == AddFresh \/ CallOnOldest

SpecFifo == InitFifo /\ [][NextFifo]_vars

-----------------------------------------------------------------------------
(* Claims about the store at the program's capacity (SpecFifo).            *)

\* The number of events evicted after the inserts recorded in added.
Evicted ==
    IF Len(added) > MAX_EVENT_HISTORY_IN_STATE_MACHINE
      THEN Len(added) - MAX_EVENT_HISTORY_IN_STATE_MACHINE
      ELSE 0

PairwiseDistinct(ids) == Cardinality({ids[i] : i \in 1..Len(ids)}) = Len(ids)

\* C1: after any sequence of calls (adds, updates, dropped and failing calls)
\* the store holds at most MAX_RETAINED = 512 events.
C1_StoreHoldsAtMost512 ==
    /\ MAX_EVENT_HISTORY_IN_STATE_MACHINE = 512
    /\ Len(_events) <= MAX_EVENT_HISTORY_IN_STATE_MACHINE

\* C1 witness: more events than the capacity were added, the last call was a
\* dropped or failing one, and the store is full.
C1_Witness ==
    /\ Len(added) > MAX_EVENT_HISTORY_IN_STATE_MACHINE
    /\ Len(_events) = MAX_EVENT_HISTORY_IN_STATE_MACHINE
    /\ IsWsCall(call)
    /\ (ret = Dropped \/ ret.kind = "raise")

\* C2: eviction is first in, first out.  After MAX_RETAINED + k inserts the
\* store holds the newest MAX_RETAINED inserted ids in the order of their
\* insertion, and, the ids being pairwise distinct, none of the k oldest.
C2_EvictionIsFifo ==
    /\ keys(_events) = SubSeq(added, Evicted + 1, Len(added))
    /\ PairwiseDistinct(added)
         => \A i \in 1..Evicted : ~has_key(_events, added[i])

\* C2 witness: MAX_RETAINED + MaxExtra events with pairwise distinct ids were
\* added, in descending order of their ids.
C2_Witness ==
    /\ Len(added) = MAX_EVENT_HISTORY_IN_STATE_MACHINE + MaxExtra
    /\ PairwiseDistinct(added)
    /\ added[1] = FifoLastId
    /\ Len(_events) = MAX_EVENT_HISTORY_IN_STATE_MACHINE

-----------------------------------------------------------------------------
(* SpecMerge: adds and updates of full and partial bodies on a state       *)
(* machine of the program's capacity, for one event id.  hist records the  *)
(* bodies that the calls applied to the event HistId since its last add,   *)
(* up to MaxHist updates; a longer history is given up (full = FALSE).     *)

\* How many updates of one event hist records.
MaxHist == 2

MergeIds == {1}

HistId == CHOOSE id \in MergeIds : \A other \in MergeIds : id <= other

MotionBody ==
    [type |-> Some(EVENT_MOTION), start |-> Some(1000), score |-> Some(10),
     camera |-> Some("c1")]

SmartBody ==
    [type |-> Some(EVENT_SMART_DETECT_ZONE), start |-> Some(1000), score |-> Some(50),
     smartDetectTypes |-> Some(<<"person">>), camera |-> Some("c2")]

ScoreBody == [score |-> Some(50)]

EndScoreBody == [end |-> Some(1500), score |-> Some(46)]

MergeBodies == {MotionBody, SmartBody, RingBody, ScoreBody, EndBody, EndScoreBody}

NoHist == [full |-> TRUE, bodies |-> <<>>]

InitMerge ==
    /\ ProtectStateMachine_init(MAX_EVENT_HISTORY_IN_STATE_MACHINE)
    /\ minimum_score \in MinScores
    /\ call = NoCall
    /\ ret = Dropped
    /\ seen = {}
    /\ added = <<>>
    /\ hist = NoHist

\* hist after the call: an add with a camera starts the history of HistId,
\* an update of HistId while it is tracked extends it.
hist_after(action_json, data_json) ==
    IF action_json.modelKey # "event" \/ action_json.id # HistId
      THEN hist
    ELSE IF action_json.action = "add" /\ get(data_json, "camera") # None
      THEN [full |-> TRUE, bodies |-> <<data_json>>]
    ELSE IF action_json.action = "update" /\ has_key(_events, HistId)
      THEN IF hist.full /\ Len(hist.bodies) <= MaxHist
             THEN [hist EXCEPT !.bodies = Append(@, data_json)]
             ELSE [full |-> FALSE, bodies |-> <<>>]
    ELSE hist

IngestMerge ==
    \E action_json \in ActionJsons(MergeIds), data_json \in MergeBodies :
        /\ event_from_ws_frames(action_json, data_json)
        /\ hist' = hist_after(action_json, data_json)
        /\ UNCHANGED <<seen, added>>

NextMerge == IngestMerge

SpecMerge == InitMerge /\ [][NextMerge]_vars

-----------------------------------------------------------------------------
(* Claims about merged events and their projection (SpecMerge).            *)

\* The tracked dict of an id that is in the store d.
tracked_in(d, id) == d[index_of(d, id)].value

tracked(id) == tracked_in(_events, id)

\* The last call returned a projection of the tracked event of its id.
ReturnedProjection ==
    /\ IsWsCall(call)
    /\ ret.kind = "return"
    /\ ret.processed_event # None
    /\ has_key(_events, call.action_json.id)

IsMotionEvent(event) ==
    get(event, "type") \in {Some(EVENT_MOTION), Some(EVENT_SMART_DETECT_ZONE)}

\* The last body of the recorded history that has the field.
LastWriter(bodies, field) ==
    CHOOSE i \in 1..Len(bodies) :
        /\ field \in DOMAIN bodies[i]
        /\ \A j \in (i + 1)..Len(bodies) : field \notin DOMAIN bodies[j]

\* C4, after an add and updates u1..un: the tracked record has the fields of
\* the add body and of the updates, each with the value of the last body that
\* has the field.
C4_Fold ==
    (hist.full /\ hist.bodies # <<>>)
        => /\ has_key(_events, HistId)
           /\ DOMAIN tracked(HistId) =
                  UNION {DOMAIN hist.bodies[i] : i \in 1..Len(hist.bodies)}
           /\ \A f \in DOMAIN tracked(HistId) :
                  tracked(HistId)[f] = hist.bodies[LastWriter(hist.bodies, f)][f]

\* C4, one update of a tracked id: every field of the update body has the
\* update's value, every other field keeps the value it had.
C4_Step ==
    (IsEventCall(call, "update")' /\ has_key(_events, call'.action_json.id))
        => LET id == call'.action_json.id
               old == tracked_in(_events, id)
               new == tracked_in(_events', id)
               u == call'.data_json
           IN  /\ DOMAIN new = (DOMAIN old) \cup (DOMAIN u)
               /\ \A f \in DOMAIN u : new[f] = u[f]
               /\ \A f \in (DOMAIN old) \ (DOMAIN u) : new[f] = old[f]

\* C4: an update of a tracked id merges as a shallow override, and after an
\* add followed by updates the tracked record is the add body overridden by
\* the updates in their order.
C4_UpdateIsShallowOverride == [](C4_Fold) /\ [][C4_Step]_vars

\* C4 witness: an add and MaxHist updates, the last of which overrides a field
\* of the add body and leaves the field of an earlier update alone.
C4_Witness ==
    /\ hist.full
    /\ Len(hist.bodies) = MaxHist + 1
    /\ hist.bodies[1] = MotionBody
    /\ hist.bodies[2] = EndBody
    /\ hist.bodies[Len(hist.bodies)] = ScoreBody
    /\ tracked(HistId).end = Some(1500)
    /\ tracked(HistId).score = Some(50)
    /\ tracked(HistId).camera = Some("c1")

\* C7 as claimed: the projection of a motion or smartDetectZone event that
\* has ended (end present) has event_on = false, whatever score and
\* minimum_score are.
C7_AsClaimed ==
    (ReturnedProjection
       /\ IsMotionEvent(tracked(call.action_json.id))
       /\ get(tracked(call.action_json.id), "end") # None)
        => ret.processed_event[1].event_on = FALSE

\* C8: the projection of an open (end absent) motion or smartDetectZone event
\* has event_on = true exactly when the merged score is there and is
\* >= minimum_score.
C8_OpenMotionOnIffScoreAtLeastMinimum ==
    (ReturnedProjection
       /\ IsMotionEvent(tracked(call.action_json.id))
       /\ get(tracked(call.action_json.id), "end") = None)
        => LET score == get(tracked(call.action_json.id), "score")
           IN  ret.processed_event[1].event_on
                   = (score # None /\ score[1] >= minimum_score)

\* C8 witness: the add had a score below the threshold, the update raised the
\* score to the threshold without an end, and the projection is on.
C8_Witness ==
    /\ ReturnedProjection
    /\ IsEventCall(call, "update")
    /\ hist = [full |-> TRUE, bodies |-> <<MotionBody, ScoreBody>>]
    /\ MotionBody.score[1] < minimum_score
    /\ tracked(HistId).score = Some(minimum_score)
    /\ get(tracked(HistId), "end") = None
    /\ ret.processed_event[1].event_on = TRUE

\* The times at which the ended ring event (start 1000, end 1500) is looked
\* at: inside the trailing window, at its edges, and long after it.
Nows == {2999, 4000, 4400, 4500, 4501, 100000}

\* The boundary of the trailing 3-second window at now_ms.
WindowBoundary(now_ms) == now_ms - 3000

InWindow(event, now_ms) ==
    /\ event.start[1] >= WindowBoundary(now_ms)
    /\ event.end[1] >= WindowBoundary(now_ms)

\* An open ring event was added and the last call, an update of it, supplied
\* the end; the call returned the projection of the merged event.
RingEndedByUpdate ==
    /\ ReturnedProjection
    /\ IsEventCall(call, "update")
    /\ call.action_json.id = HistId
    /\ "end" \in DOMAIN call.data_json
    /\ hist.full
    /\ Len(hist.bodies) >= 2
    /\ get(hist.bodies[1], "type") = Some(EVENT_RING)
    /\ \A i \in 1..(Len(hist.bodies) - 1) : "end" \notin DOMAIN hist.bodies[i]
    /\ get(tracked(HistId), "type") = Some(EVENT_RING)

-----------------------------------------------------------------------------
(* SpecProject: process_event called on its own, as a caller that polls    *)
(* events does, with the boundary of its ring window as ring_interval.     *)
(* Timestamps are epoch milliseconds of events, hence positive.            *)

\* The dicts with the one key, for each of the values, and the empty dict.
OptionalField(name, values) ==
    {EmptyDict} \cup {[k \in {name} |-> Some(v)] : v \in values}

ProjEvents ==
    {t @@ s @@ e @@ sc @@ sdt :
        t \in OptionalField("type", {EVENT_MOTION, EVENT_SMART_DETECT_ZONE,
                                     EVENT_RING, "other"}),
        s \in OptionalField("start", {1000, 5000}),
        e \in OptionalField("end", {1500, 5500}),
        sc \in OptionalField("score", {10, 50}),
        sdt \in OptionalField("smartDetectTypes", {<<>>, <<"person">>})}

RingIntervals == {LIVE_RING_FROM_WEBSOCKET, 999, 1000, 1001, 1500, 1501, 5000, 97000}

\* The call is made and has not returned yet.
Pending ==
    [kind |-> "pending", exc |-> None, camera_id |-> None, processed_event |-> None]

\* The arguments of the call are drawn here; the state machine plays no part.
InitProject ==
    /\ ProtectStateMachine_init(MAX_EVENT_HISTORY_IN_STATE_MACHINE)
    /\ minimum_score \in MinScores
    /\ call \in [op : {"process_event"}, event : ProjEvents,
                 ring_interval : RingIntervals]
    /\ ret = Pending
    /\ seen = {}
    /\ added = <<>>
    /\ hist = NoHist

\* process_event on the arguments of the call; ret holds the processed event,
\* or the TypeError.
process_event_call ==
    /\ ret = Pending
    /\ ret' = IF process_event_raises(call.event)
                THEN Raise("TypeError")
                ELSE Return(None, Some(process_event(call.event, minimum_score,
                                                     call.ring_interval)))
    /\ UNCHANGED <<_events, _max_size, minimum_score, call, seen, added, hist>>

NextProject == process_event_call

SpecProject == InitProject /\ [][NextProject]_vars

-----------------------------------------------------------------------------
(* Claims about process_event (SpecProject).                               *)

\* The last call projected a ring event that has ended: type ring, with a
\* start and an end.
ProjectedEndedRing ==
    /\ call.op = "process_event"
    /\ ret # Pending
    /\ get(call.event, "type") = Some(EVENT_RING)
    /\ get(call.event, "start") # None
    /\ get(call.event, "end") # None

\* C9: the projection of a ring event that has ended has event_ring_on = true
\* if and only if its start and its end are both at or after the window
\* boundary (ring_interval, which the caller sets to now_ms - 3000).
C9_EndedRingOnIffInsideWindow ==
    ProjectedEndedRing
        => /\ ret.kind = "return"
           /\ ret.processed_event[1].event_ring_on
                  = (/\ call.event.start[1] >= call.ring_interval
                     /\ call.event.end[1] >= call.ring_interval)

\* C9 witness: the end is inside the window and the start is before it, so
\* the projection is off.
C9_Witness ==
    /\ ProjectedEndedRing
    /\ call.ring_interval # LIVE_RING_FROM_WEBSOCKET
    /\ call.event.start[1] < call.ring_interval
    /\ call.event.end[1] >= call.ring_interval
    /\ ret.processed_event[1].event_ring_on = FALSE

\* The last call of process_event returned a processed event.
Projected ==
    /\ call.op = "process_event"
    /\ ret # Pending
    /\ ret.kind = "return"

\* C11: the projection of a ring event that is still open (no end) has
\* event_ring_on = true, whatever start, score, minimum_score and the window
\* boundary are.
C11_OpenRingIsOn ==
    (call.op = "process_event" /\ ret # Pending
       /\ get(call.event, "type") = Some(EVENT_RING)
       /\ get(call.event, "end") = None)
        => /\ ret.kind = "return"
           /\ ret.processed_event[1].event_ring_on = TRUE

\* C11 witness: an open ring event that started before the window boundary,
\* with a score below minimum_score, is on.
C11_Witness ==
    /\ Projected
    /\ get(call.event, "type") = Some(EVENT_RING)
    /\ get(call.event, "end") = None
    /\ get(call.event, "start") = Some(1000)
    /\ get(call.event, "score") = Some(10)
    /\ call.ring_interval = 97000
    /\ ret.processed_event[1].event_ring_on = TRUE

\* An event_object without classifications: the empty list, or null.
IsEmptyObject(o) == o \in {None, Some(<<>>)}

\* C12 as claimed, for motion and smartDetectZone events: event_object is the
\* event's smartDetectTypes exactly when the type is smartDetectZone and the
\* event has ended or event_on is true, and is empty otherwise (a motion
\* event, an open smartDetectZone event with a score below minimum_score).
C12_AsClaimed ==
    (Projected /\ IsMotionEvent(call.event))
        => LET p == ret.processed_event[1]
               populated ==
                   /\ get(call.event, "type") = Some(EVENT_SMART_DETECT_ZONE)
                   /\ (get(call.event, "end") # None \/ p.event_on)
           IN  IF populated
                 THEN \/ p.event_object = get(call.event, "smartDetectTypes")
                      \/ /\ IsEmptyObject(p.event_object)
                         /\ IsEmptyObject(get(call.event, "smartDetectTypes"))
                 ELSE IsEmptyObject(p.event_object)

\* C17 as claimed: the projection of an event whose type is not motion,
\* smartDetectZone or ring (a missing type included) has event_on = false and
\* event_ring_on = false.
C17_AsClaimed ==
    (Projected
       /\ get(call.event, "type") \notin {Some(EVENT_MOTION),
                                          Some(EVENT_SMART_DETECT_ZONE),
                                          Some(EVENT_RING)})
        => /\ ret.processed_event[1].event_on = FALSE
           /\ ret.processed_event[1].event_ring_on = FALSE

\* C18 as claimed: every projection has event_score, event_type, event_start
\* and event_length; event_score is 0 when the event has no score,
\* event_start is null when it has no start, event_length is 0 when it has no
\* end.
C18_AsClaimed ==
    Projected
        => LET p == ret.processed_event[1]
           IN  /\ {"event_score", "event_type", "event_start", "event_length"}
                      \subseteq DOMAIN p
               /\ get(call.event, "score") = None => p.event_score = Some(0)
               /\ get(call.event, "start") = None => p.event_start = None
               /\ get(call.event, "end") = None
                      => p.event_length = event_length_of(0, 0)

-----------------------------------------------------------------------------
(* Claims about the order of the store and the camera of its events (Spec). *)

\* The step is the add of an id that is not tracked, with a camera, on a full
\* store whose first (oldest) item is the id of the call before.
EvictingAddAfterCallOnOldest ==
    /\ Len(_events) = _max_size
    /\ _events[1].key = call.action_json.id
    /\ IsEventCall(call, "add")'
    /\ get(call'.data_json, "camera") # None
    /\ ~has_key(_events, call'.action_json.id)

\* C16: an update of a tracked id leaves the tracked ids and their order as
\* they were, and an event that has just been updated while it is the oldest
\* of a full store is the one that the next insert evicts: the rest of the
\* store keeps its order and the new event goes to the end.
C16_UpdateKeepsEvictionOrder ==
    [][ /\ (IsEventCall(call, "update")' /\ has_key(_events, call'.action_json.id))
            => keys(_events') = keys(_events)
        /\ ( /\ IsEventCall(call, "update")
             /\ ret.kind = "return" /\ ret # Dropped
             /\ EvictingAddAfterCallOnOldest )
            => /\ ~has_key(_events', call.action_json.id)
               /\ keys(_events') = Append(Tail(keys(_events)), call'.action_json.id)
      ]_vars

\* C16 witness: the update of the oldest event of a full store returned the
\* merged event, and that event is still the first of the store.
C16_Witness ==
    /\ IsEventCall(call, "update")
    /\ ret.kind = "return" /\ ret # Dropped
    /\ Len(_events) = _max_size
    /\ _max_size >= 2
    /\ _events[1].key = call.action_json.id
    /\ "end" \in DOMAIN _events[1].value

\* C19: an add of an id that is tracked replaces the tracked record with
\* the new body and is no insert: the size, the ids and their order are
\* unchanged, no other record changes, and the event that was added again
\* while it is the oldest of a full store is the one that the next insert
\* evicts.
C19_ReAddKeepsPosition ==
    [][ /\ ( /\ IsEventCall(call, "add")'
             /\ get(call'.data_json, "camera") # None
             /\ has_key(_events, call'.action_json.id) )
            => LET id == call'.action_json.id
               IN  /\ Len(_events') = Len(_events)
                   /\ keys(_events') = keys(_events)
                   /\ _events'[index_of(_events, id)].value = call'.data_json
                   /\ \A i \in 1..Len(_events) :
                          _events[i].key # id => _events'[i] = _events[i]
        /\ ( /\ IsEventCall(call, "add")
             /\ ret.kind = "return" /\ ret # Dropped
             /\ EvictingAddAfterCallOnOldest )
            => /\ ~has_key(_events', call.action_json.id)
               /\ keys(_events') = Append(Tail(keys(_events)), call'.action_json.id)
      ]_vars

\* C19 witness: an add returned the event of the id that is the first of a
\* full store of at least two events, so the id was tracked before the add;
\* the new body has replaced a record that an update had given an end.
C19_Witness ==
    /\ IsEventCall(call, "add")
    /\ ret.kind = "return" /\ ret # Dropped
    /\ Len(_events) = _max_size
    /\ _max_size >= 2
    /\ _events[1].key = call.action_json.id
    /\ _events[1].value = call.data_json
    /\ "end" \in DOMAIN _events[2].value

\* C20 as claimed: every tracked event has a camera field, and a call that
\* is neither Dropped nor failing returns a camera_id that is not null and is
\* the camera of the tracked event.
C20_AsClaimed ==
    /\ \A i \in 1..Len(_events) : "camera" \in DOMAIN _events[i].value
    /\ (IsWsCall(call) /\ ret.kind = "return" /\ ret # Dropped)
           => /\ ret.camera_id # None
              /\ has_key(_events, call.action_json.id)
                     => ret.camera_id
                            = get(tracked_in(_events, call.action_json.id), "camera")

-----------------------------------------------------------------------------
(* decode_ws_frame(frame, position).  A buffer is a sequence of bytes       *)
(* (0..255); a position is a 0-based offset as in the code.                *)

\* Python's index normalisation of a slice bound on a sequence of length n:
\* a negative bound counts from the end, and bounds are clamped to 0..n.
slice_bound(i, n) ==
    IF i < 0 THEN (IF i + n < 0 THEN 0 ELSE i + n)
    ELSE IF i > n THEN n ELSE i

\* frame[a : b]
slice(frame, a, b) ==
    LET lo == slice_bound(a, Len(frame))
        hi == slice_bound(b, Len(frame))
    IN  IF lo < hi THEN SubSeq(frame, lo + 1, hi) ELSE <<>>

\* struct format "b": a byte as a signed 8-bit integer.
unpack_int8(byte) == IF byte >= 128 THEN byte - 256 ELSE byte

\* Mutant of unpack_int32: the four bytes are read in little-endian order.
unpack_int32_little_endian(b) ==
    unpack_int8(b[4]) * 16777216 + b[3] * 65536 + b[2] * 256 + b[1]

\* struct format "!i": four bytes as a big-endian signed 32-bit integer.
unpack_int32(b) ==
    unpack_int8(b[1]) * 16777216 + b[2] * 65536 + b[3] * 256 + b[4]

\* struct.unpack("!bbbbi", data): None when data is not WS_HEADER_SIZE bytes
\* long (struct.error), else the header's fields.
struct_unpack(data) ==
    IF Len(data) # WS_HEADER_SIZE
      THEN None
      ELSE Some([packet_type |-> unpack_int8(data[1]),
                 payload_format |-> unpack_int8(data[2]),
                 deflated |-> unpack_int8(data[3]),
                 unknown |-> unpack_int8(data[4]),
                 payload_size |-> unpack_int32(SubSeq(data, 5, 8))])

\* The first byte of a zlib stream (0x78).
ZLIB_HEADER == 120

\* The check value that ends a zlib stream, here the sum of the data bytes
\* modulo 256.
RECURSIVE zlib_checksum(_)
zlib_checksum(data) ==
    IF data = <<>> THEN 1 ELSE (Head(data) + zlib_checksum(Tail(data))) % 256

\* zlib.decompress(data): the data of a stream that has the header and the
\* right check value, None (zlib.error) for anything else.  The stream is
\* header, data, check value; the compression itself is not modelled.
zlib_decompress(data) ==
    IF /\ Len(data) >= 2
       /\ data[1] = ZLIB_HEADER
       /\ data[Len(data)] = zlib_checksum(SubSeq(data, 2, Len(data) - 1))
      THEN Some(SubSeq(data, 2, Len(data) - 1))
      ELSE None

\* Mutant of ProtectWSPayloadFormat: every value is a member.
ProtectWSPayloadFormat_open(value) == Some([name |-> "Other", value |-> value])

\* ProtectWSPayloadFormat(value): the member of the enum, None (ValueError)
\* when the value is not one of a member.
ProtectWSPayloadFormat(value) ==
    IF value = 1 THEN Some([name |-> "JSON", value |-> 1])
    ELSE IF value = 2 THEN Some([name |-> "UTF8String", value |-> 2])
    ELSE IF value = 3 THEN Some([name |-> "NodeBuffer", value |-> 3])
    ELSE None

DecodeReturn(frame, payload_format, position) ==
    [kind |-> "return", exc |-> None,
     frame |-> frame, payload_format |-> payload_format, position |-> position]

DecodeRaise(exc) == [kind |-> "raise", exc |-> Some(exc)]

\* decode_ws_frame, in the order of the code: unpack the header, slice the
\* payload, decompress it when deflated is not 0, convert the format.
decode_ws_frame(frame, position) ==
    LET header == struct_unpack(slice(frame, position, position + WS_HEADER_SIZE))
        position1 == position + WS_HEADER_SIZE
        payload_size == header[1].payload_size
        raw == slice(frame, position1, position1 + payload_size)
        inflated == zlib_decompress(raw)
        payload_format == ProtectWSPayloadFormat(header[1].payload_format)
    IN  IF header = None THEN DecodeRaise("struct.error")
        ELSE IF header[1].deflated # 0 /\ inflated = None
          THEN DecodeRaise("zlib.error")
        ELSE IF payload_format = None THEN DecodeRaise("ValueError")
        ELSE DecodeReturn(IF header[1].deflated # 0 THEN inflated[1] ELSE raw,
                          payload_format[1],
                          position1 + payload_size)

-----------------------------------------------------------------------------
(* SpecDecode: a buffer of frames is written as the frame format says      *)
(* (lines 45-50), some of it malformed, and is decoded from position 0,    *)
(* each call at the position that the call before returned.  hist holds    *)
(* the frames that were written (sent), the number of bytes cut off the    *)
(* end of the buffer (cut) and the call positions and results so far       *)
(* (decoded).                                                              *)

\* How many frames a buffer holds at most.
MaxFrames == 4

\* "!i": the four bytes of a signed 32-bit integer, big-endian.
pack_int32(n) ==
    <<(n \div 16777216) % 256, (n \div 65536) % 256, (n \div 256) % 256, n % 256>>

\* A zlib stream of the data: header, data, check value.
zlib_compress(data) == <<ZLIB_HEADER>> \o data \o <<zlib_checksum(data)>>

\* A well-formed frame: the payload on the wire is the plain payload, or the
\* zlib stream of it when deflated, and payload_size is its length.
WsFrame(payload_format, deflated, plain) ==
    LET wire == IF deflated # 0 THEN zlib_compress(plain) ELSE plain
    IN  [payload_format |-> payload_format, deflated |-> deflated,
         plain |-> plain, wire |-> wire, payload_size |-> Len(wire)]

\* The bytes of a frame: header b, b, b, b, i and the payload.
frame_bytes(packet_type, f) ==
    <<packet_type, f.payload_format % 256, f.deflated % 256, 0>>
        \o pack_int32(f.payload_size) \o f.wire

WellFormedFrames ==
    {WsFrame(1, 0, <<123, 125>>), WsFrame(1, 1, <<123, 125>>),
     WsFrame(2, 0, <<>>), WsFrame(3, 0, <<7>>)}

\* Frames with a payload_format that is no member of the enum, with a
\* payload_size that is negative or larger than the payload, and with a
\* payload that is flagged deflated and is no zlib stream.
MalformedFrames ==
    {WsFrame(0, 0, <<7>>), WsFrame(4, 0, <<7>>),
     [WsFrame(1, 0, <<7>>) EXCEPT !.payload_size = -1],
     [WsFrame(1, 0, <<7>>) EXCEPT !.payload_size = -20],
     [WsFrame(1, 0, <<7>>) EXCEPT !.payload_size = 2],
     [WsFrame(1, 0, <<7>>) EXCEPT !.payload_size = 40],
     [WsFrame(1, 0, <<7>>) EXCEPT !.deflated = 1]}

\* The frames of a buffer: at most MaxFrames, at most one of them malformed.
SentFrames ==
    UNION {{sent \in [1..n -> WellFormedFrames \cup MalformedFrames] :
               Cardinality({i \in 1..n : sent[i] \in MalformedFrames}) <= 1}
           : n \in 0..MaxFrames}

\* How many bytes are missing at the end of the buffer.
Cuts == {0, 1, 9}

\* The frames one after the other: an action frame (packet type 1), then its
\* data frame (packet type 2), and so on.
RECURSIVE buffer_of(_, _)
buffer_of(sent, i) ==
    IF i > Len(sent) THEN <<>>
    ELSE frame_bytes(IF i % 2 = 1 THEN 1 ELSE 2, sent[i]) \o buffer_of(sent, i + 1)

cut_buffer(buffer, cut) ==
    IF cut >= Len(buffer) THEN <<>> ELSE SubSeq(buffer, 1, Len(buffer) - cut)

InitDecode ==
    /\ ProtectStateMachine_init(MAX_EVENT_HISTORY_IN_STATE_MACHINE)
    /\ minimum_score = 50
    /\ \E sent \in SentFrames, cut \in Cuts :
           /\ hist = [sent |-> sent, cut |-> cut, decoded |-> <<>>]
           /\ call = [op |-> "decode_ws_frame",
                      frame |-> cut_buffer(buffer_of(sent, 1), cut),
                      position |-> 0]
    /\ ret = Pending
    /\ seen = {}
    /\ added = <<>>

\* The call of decode_ws_frame on the arguments in call.
decode_ws_frame_call ==
    /\ ret = Pending
    /\ ret' = decode_ws_frame(call.frame, call.position)
    /\ hist' = [hist EXCEPT !.decoded =
                    Append(@, [position |-> call.position, result |-> ret'])]
    /\ UNCHANGED <<_events, _max_size, minimum_score, call, seen, added>>

\* The caller goes on at the position that the call returned, while it is
\* before the end of the buffer.
decode_next_frame ==
    /\ ret # Pending
    /\ ret.kind = "return"
    /\ ret.position < Len(call.frame)
    /\ Len(hist.decoded) <= MaxFrames
    /\ call' = [call EXCEPT !.position = ret.position]
    /\ ret' = Pending
    /\ UNCHANGED <<_events, _max_size, minimum_score, seen, added, hist>>

NextDecode == decode_ws_frame_call \/ decode_next_frame

SpecDecode == InitDecode /\ [][NextDecode]_vars

-----------------------------------------------------------------------------
(* Claims about decode_ws_frame (SpecDecode).                              *)

\* The last call of decode_ws_frame has returned or raised.
Decoded ==
    /\ call.op = "decode_ws_frame"
    /\ ret # Pending

\* The number of bytes of the buffer from the position of the call on.
Remaining == Len(call.frame) - call.position

\* The header at the position of the call, when 8 bytes remain there.
HeaderAtCall ==
    LET bytes == SubSeq(call.frame, call.position + 1, call.position + 8)
    IN  [payload_format |-> unpack_int8(bytes[2]),
         deflated |-> unpack_int8(bytes[3]),
         payload_size |-> unpack_int8(bytes[5]) * 16777216 + bytes[6] * 65536
                              + bytes[7] * 256 + bytes[8]]

\* C13 as claimed: a call at a position of the buffer fails whenever fewer
\* than 8 bytes remain there, or the payload length of the header is
\* negative or exceeds the bytes that remain after the header; a call that
\* returns gives a next position in [position + 8, len(buffer)] and, for a
\* payload that is not deflated, a payload of the declared length.
C13_AsClaimed ==
    (Decoded /\ call.position >= 0 /\ call.position <= Len(call.frame))
        => /\ ( \/ Remaining < 8
                \/ HeaderAtCall.payload_size < 0
                \/ HeaderAtCall.payload_size > Remaining - 8 )
                  => ret.kind = "raise"
           /\ ret.kind = "return"
                  => /\ ret.position >= call.position + 8
                     /\ ret.position <= Len(call.frame)
                     /\ HeaderAtCall.deflated = 0
                            => Len(ret.frame) = HeaderAtCall.payload_size

\* The buffer is the concatenation of one or more well-formed frames, and
\* nothing of it is cut off.
WellFormedBuffer ==
    /\ call.op = "decode_ws_frame"
    /\ hist.cut = 0
    /\ hist.sent # <<>>
    /\ \A i \in 1..Len(hist.sent) : hist.sent[i] \in WellFormedFrames

\* C14: on a buffer of well-formed frames, the i-th call is made at the end
\* of frame i - 1 (the first at 0), returns the payload and the format of
\* frame i and the position p + 8 + payload_size; there are no more calls
\* than frames, and the position returned for the last frame is the length
\* of the buffer.
C14_DecodesFramesInOrder ==
    WellFormedBuffer
        => /\ Len(hist.decoded) <= Len(hist.sent)
           /\ \A i \in 1..Len(hist.decoded) :
                  LET d == hist.decoded[i]
                  IN  /\ d.position = IF i = 1 THEN 0
                                      ELSE hist.decoded[i - 1].result.position
                      /\ d.result.kind = "return"
                      /\ d.result.frame = hist.sent[i].plain
                      /\ d.result.payload_format.value = hist.sent[i].payload_format
                      /\ d.result.position
                             = d.position + WS_HEADER_SIZE + hist.sent[i].payload_size
           /\ (hist.decoded # <<>> /\ Len(hist.decoded) = Len(hist.sent))
                  => hist.decoded[Len(hist.decoded)].result.position = Len(call.frame)

\* C14 witness: two pairs of frames, a deflated one among them, have been
\* decoded, and the last call returned the length of the buffer.
C14_Witness ==
    /\ WellFormedBuffer
    /\ Decoded
    /\ Len(hist.sent) = 4
    /\ Len(hist.decoded) = 4
    /\ hist.sent[1].deflated = 1
    /\ hist.sent[2].deflated = 0
    /\ hist.sent[2].plain # <<>>
    /\ ret.kind = "return"
    /\ ret.position = Len(call.frame)

\* C15: a call that returns gives a format of the enum (1, 2 or 3), and a
\* call on a frame whose payload_format byte is anything else raises.
C15_FormatIsOfTheEnum ==
    Decoded
        => /\ ret.kind = "return" => ret.payload_format.value \in {1, 2, 3}
           /\ ( /\ call.position >= 0
                /\ Remaining >= 8
                /\ HeaderAtCall.payload_format \notin {1, 2, 3} )
                  => ret.kind = "raise"

\* C15 witness: the second frame of the buffer is whole and not deflated,
\* its payload_format is 4, and the call on it raised ValueError.
C15_Witness ==
    /\ Decoded
    /\ hist.cut = 0
    /\ Len(hist.decoded) = 2
    /\ hist.sent[1] \in WellFormedFrames
    /\ hist.sent[2] = WsFrame(4, 0, <<7>>)
    /\ HeaderAtCall.payload_format = 4
    /\ ret = DecodeRaise("ValueError")

=============================================================================
